---- MODULE Spec2Model ----
(***************************************************************************)
(* Model of the tool-calling round trip of extra_tooling.py:               *)
(* invoke_model_with_tools (one run = one call of the function), the tool  *)
(* handler cpf_to_username over CPF_DATABASE, and main's sequence of runs. *)
(*                                                                         *)
(* Strings are sequences of tokens (a CPF is a sequence of one-character   *)
(* tokens), so that concatenation is \o and the empty string is << >>.     *)
(***************************************************************************)
EXTENDS Integers, Sequences, FiniteSets, TLC

\* ---------------------------------------------------------------- bounds
MaxBlocks == 2        \* content blocks in the first response
MaxFinalBlocks == 1   \* content blocks in the second response

\* ------------------------------------------------------- the CPF database
Digits == {"0", "1", "2", "3", "4", "5", "6", "7", "8", "9"}

Joao == <<"Joao da Silva">>
Maria == <<"Maria Santos">>
Pedro == <<"Pedro Oliveira">>
Ana == <<"Ana Costa">>

CPF_DATABASE ==
    (<<"1","2","3",".","4","5","6",".","7","8","9","-","0","0">> :> Joao)
 @@ (<<"9","8","7",".","6","5","4",".","3","2","1","-","0","0">> :> Maria)
 @@ (<<"1","1","1",".","2","2","2",".","3","3","3","-","4","4">> :> Pedro)
 @@ (<<"5","5","5",".","6","6","6",".","7","7","7","-","8","8">> :> Ana)
 @@ (<<"1","2","3","4","5","6","7","8","9","0","0">> :> Joao)
 @@ (<<"9","8","7","6","5","4","3","2","1","0","0">> :> Maria)
 @@ (<<"1","1","1","2","2","2","3","3","3","4","4">> :> Pedro)
 @@ (<<"5","5","5","6","6","6","7","7","7","8","8">> :> Ana)

\* A JSON value found under the key 'cpf': a string, or something that is
\* not a string (a number, null, a list, an object).
StrVal(s) == [isStr |-> TRUE, chars |-> s]
NonStrVal == [isStr |-> FALSE, chars |-> <<>>]

IsDigit(ch) == ch \in Digits

\* ''.join(char for char in cpf if char.isdigit())
normalized_cpf(s) == SelectSeq(s, IsDigit)

\* f"CPF {cpf} not found in database"
NotFound(s) == <<"CPF ">> \o s \o <<" not found in database">>

\* ------------------------------------------------------------ the registry
ToolName == "cpf_to_username"
tools == <<[name |-> ToolName]>>

\* ------------------------------------------- what the endpoint can answer
FormattedHit == <<"1","2","3",".","4","5","6",".","7","8","9","-","0","0">>
SpacedHit == <<"9","8","7"," ","6","5","4"," ","3","2","1"," ","0","0">>
Miss == <<"9","9","9",".","9","9","9",".","9","9","9","-","9","9">>

\* tool_input: a dict that may or may not hold the key 'cpf'
Input(v) == [has_cpf |-> TRUE, cpf |-> v]
NoCpfInput == [has_cpf |-> FALSE, cpf |-> StrVal(<<>>)]

TextBlock(t) ==
    [type |-> "text", text |-> t, id |-> "", name |-> "", input |-> NoCpfInput]
ToolUseBlock(n, inp) ==
    [type |-> "tool_use", text |-> <<>>, id |-> "", name |-> n, input |-> inp]

BlockTemplates ==
    { TextBlock(<<"Let me look that up. ">>),
      TextBlock(<<"The answer is Alice.">>),
      ToolUseBlock(ToolName, Input(StrVal(FormattedHit))),
      ToolUseBlock(ToolName, Input(StrVal(SpacedHit))),
      ToolUseBlock(ToolName, Input(StrVal(Miss))),
      ToolUseBlock(ToolName, Input(NonStrVal)),
      ToolUseBlock(ToolName, NoCpfInput),
      ToolUseBlock("get_weather", Input(StrVal(FormattedHit))) }

ToolUseIds == <<"toolu_01", "toolu_02", "toolu_03", "toolu_04">>

\* ids are unique within one response
WithIds(c) ==
    [i \in 1..Len(c) |->
        IF c[i].type = "tool_use" THEN [c[i] EXCEPT !.id = ToolUseIds[i]]
        ELSE c[i]]

Contents(n) == { WithIds(c) : c \in UNION { [1..k -> BlockTemplates] : k \in 0..n } }

StopReasons == {"end_turn", "tool_use"}

Responses(n) == [stop_reason : StopReasons, content : Contents(n)]

NoResponse == [stop_reason |-> "", content |-> <<>>]

UserMessages == {"Who has CPF 999.999.999-99?",
                 "What is the full name of the person with CPF 123.456.789-00?"}

\* the value returned to the caller
StrResult(s) == [kind |-> "str", val |-> s]
None == [kind |-> "None", val |-> <<>>]
NoResult == [kind |-> "pending", val |-> <<>>]

VARIABLES
    pc,             \* position inside invoke_model_with_tools / main
    user_message,   \* argument of the current run
    messages,       \* the conversation (request_body['messages'] is this list)
    response_body,  \* last decoded response
    received,       \* responses received from the endpoint in this run, in order
    content_blocks, \* content of the first response on the tool path
    tool_results,   \* tool_result blocks collected so far
    idx,            \* position of the for loop over content_blocks
    result,         \* value returned by the run
    sent,           \* conversations sent to the endpoint in this run, in order
    invoked,        \* handler invocations of this run, in order
    failed,         \* index of the inference call that failed, 0 if none
    handler_raised, \* a handler raised during this run
    cpf_database,   \* the module-level dict CPF_DATABASE
    previous_run    \* how the previous run of the caller ended

vars == <<pc, user_message, messages, response_body, received,
          content_blocks, tool_results, idx, result, sent, invoked, failed,
          handler_raised, cpf_database, previous_run>>

calls == Len(sent)

cpf_to_username_MissRaises(v) ==
    IF ~v.isStr THEN [raised |-> TRUE, value |-> <<>>]
    ELSE IF v.chars \in DOMAIN cpf_database
         THEN [raised |-> FALSE, value |-> cpf_database[v.chars]]
    ELSE IF normalized_cpf(v.chars) \in DOMAIN cpf_database
         THEN [raised |-> FALSE, value |-> cpf_database[normalized_cpf(v.chars)]]
    ELSE [raised |-> TRUE, value |-> <<>>]

\* cpf_to_username(cpf): the outcome of the handler.  Iterating a number or
\* null, or hashing a list or an object, raises TypeError.
cpf_to_username(v) ==
    IF ~v.isStr THEN [raised |-> TRUE, value |-> <<>>]
    ELSE IF v.chars \in DOMAIN cpf_database
         THEN [raised |-> FALSE, value |-> cpf_database[v.chars]]
    ELSE IF normalized_cpf(v.chars) \in DOMAIN cpf_database
         THEN [raised |-> FALSE, value |-> cpf_database[normalized_cpf(v.chars)]]
    ELSE [raised |-> FALSE, value |-> NotFound(v.chars)]

\* what the caller has seen of a finished run: the kind of value returned
\* ("str", or "None" for a run that failed)
NoRun == "none"
RunSummary(res) == res.kind

Init ==
    /\ pc = "idle"
    /\ user_message = ""
    /\ messages = <<>>
    /\ response_body = NoResponse
    /\ received = <<>>
    /\ content_blocks = <<>>
    /\ tool_results = <<>>
    /\ idx = 0
    /\ result = NoResult
    /\ sent = <<>>
    /\ invoked = <<>>
    /\ failed = 0
    /\ handler_raised = FALSE
    /\ cpf_database = CPF_DATABASE
    /\ previous_run = NoRun

FreshConversation_Carried(old, um) == Append(old, [role |-> "user", content |-> um])

\* messages = [{"role": "user", "content": user_message}]: a new list, local
\* to the call, whatever the previous call left behind
FreshConversation(old, um) == <<[role |-> "user", content |-> um]>>

\* the caller (main) calls invoke_model_with_tools, any number of times, one
\* run after the other; the function builds tools, messages and request_body.
StartRun(um) ==
    /\ pc \in {"idle", "done"}
    /\ user_message' = um
    /\ messages' = FreshConversation(messages, um)
    /\ response_body' = NoResponse
    /\ received' = <<>>
    /\ content_blocks' = <<>>
    /\ tool_results' = <<>>
    /\ idx' = 0
    /\ result' = NoResult
    /\ sent' = <<>>
    /\ invoked' = <<>>
    /\ failed' = 0
    /\ handler_raised' = FALSE
    /\ pc' = "first_call"
    /\ previous_run' = IF pc = "idle" THEN NoRun ELSE RunSummary(result)
    /\ UNCHANGED cpf_database

\* client.invoke_model raises (or the body cannot be read/decoded)
FirstCallFails ==
    /\ pc = "first_call"
    /\ sent' = Append(sent, messages)
    /\ failed' = 1
    /\ pc' = "except"
    /\ UNCHANGED <<user_message, messages, response_body, received,
                   content_blocks, tool_results, idx, result, invoked,
                   handler_raised>>
    /\ UNCHANGED <<cpf_database, previous_run>>

TakesToolPath_Always(r) == TRUE

\* if stop_reason == 'tool_use'
TakesToolPath(r) == r.stop_reason = "tool_use"

\* first client.invoke_model returns r; stop_reason is inspected
FirstCall(r) ==
    /\ pc = "first_call"
    /\ sent' = Append(sent, messages)
    /\ response_body' = r
    /\ received' = Append(received, r)
    /\ pc' = IF TakesToolPath(r) THEN "tool_use" ELSE "extract"
    /\ UNCHANGED <<user_message, messages, content_blocks, tool_results,
                   idx, result, invoked, failed, handler_raised>>
    /\ UNCHANGED <<cpf_database, previous_run>>

AssistantMessage_ToolUsesOnly(c) ==
    LET OnlyToolUse(b) == b.type = "tool_use"
    IN [role |-> "assistant", content |-> SelectSeq(c, OnlyToolUse)]

\* assistant_message: all content blocks of the response, as received
AssistantMessage(c) == [role |-> "assistant", content |-> c]

\* the assistant message is appended; the loop over content_blocks starts
AppendAssistant ==
    /\ pc = "tool_use"
    /\ content_blocks' = response_body.content
    /\ messages' = Append(messages, AssistantMessage(response_body.content))
    /\ tool_results' = <<>>
    /\ idx' = 1
    /\ pc' = "loop"
    /\ UNCHANGED <<user_message, response_body, received, result,
                   sent, invoked, failed, handler_raised>>
    /\ UNCHANGED <<cpf_database, previous_run>>

\* cpf = tool_input.get('cpf', '')
CpfArg(inp) == IF inp.has_cpf THEN inp.cpf ELSE StrVal(<<>>)

\* the tool a block is dispatched to: only a tool_use block naming
\* cpf_to_username reaches a handler
Dispatched(block) == block.type = "tool_use" /\ block.name = ToolName

\* the block appended to tool_results
ToolResult(tool_use_id, res) ==
    [type |-> "tool_result", tool_use_id |-> tool_use_id, content |-> res]

CurrentBlock_Reversed(c, i) == c[Len(c) + 1 - i]

\* for block in content_blocks: the blocks are visited in the order received
CurrentBlock(c, i) == c[i]

\* one iteration of `for block in content_blocks`
LoopStep ==
    /\ pc = "loop"
    /\ idx <= Len(content_blocks)
    /\ LET block == CurrentBlock(content_blocks, idx)
           out == cpf_to_username(CpfArg(block.input))
       IN IF Dispatched(block)
          THEN /\ invoked' = Append(invoked, [id |-> block.id, cpf |-> CpfArg(block.input)])
               /\ IF out.raised
                  THEN /\ handler_raised' = TRUE
                       /\ pc' = "except"
                       /\ UNCHANGED <<tool_results, idx>>
                  ELSE /\ tool_results' = Append(tool_results,
                                                 ToolResult(block.id, out.value))
                       /\ idx' = idx + 1
                       /\ UNCHANGED <<pc, handler_raised>>
          ELSE /\ idx' = idx + 1
               /\ UNCHANGED <<pc, tool_results, invoked, handler_raised>>
    /\ UNCHANGED <<user_message, messages, response_body, received,
                   content_blocks, result, sent, failed>>
    /\ UNCHANGED <<cpf_database, previous_run>>

ToolResultsMessage_LastOnly(tr) ==
    [role |-> "user", content |-> IF tr = <<>> THEN tr ELSE <<tr[Len(tr)]>>]

\* the message sending the tool results back to the model
ToolResultsMessage(tr) == [role |-> "user", content |-> tr]

\* the loop is over: the tool results are appended as one user message
AppendResults ==
    /\ pc = "loop"
    /\ idx > Len(content_blocks)
    /\ messages' = Append(messages, ToolResultsMessage(tool_results))
    /\ pc' = "second_call"
    /\ UNCHANGED <<user_message, response_body, received,
                   content_blocks, tool_results, idx, result, sent, invoked,
                   failed, handler_raised>>
    /\ UNCHANGED <<cpf_database, previous_run>>

SecondCallFails ==
    /\ pc = "second_call"
    /\ sent' = Append(sent, messages)
    /\ failed' = 2
    /\ pc' = "except"
    /\ UNCHANGED <<user_message, messages, response_body, received,
                   content_blocks, tool_results, idx, result, invoked,
                   handler_raised>>
    /\ UNCHANGED <<cpf_database, previous_run>>

AfterSecondCall_Loop(r) == IF r.stop_reason = "tool_use" THEN "tool_use" ELSE "extract"

\* after the second response the function falls through to the extraction
\* of the text, whatever the stop reason
AfterSecondCall(r) == "extract"

SecondCall(r) ==
    /\ pc = "second_call"
    /\ sent' = Append(sent, messages)
    /\ response_body' = r
    /\ received' = Append(received, r)
    /\ pc' = AfterSecondCall(r)
    /\ UNCHANGED <<user_message, messages, content_blocks,
                   tool_results, idx, result, invoked, failed, handler_raised>>
    /\ UNCHANGED <<cpf_database, previous_run>>

RECURSIVE final_response_Last(_)
final_response_Last(c) ==
    IF c = <<>> THEN <<>>
    ELSE IF c[Len(c)].type = "text" THEN c[Len(c)].text
    ELSE final_response_Last(SubSeq(c, 1, Len(c) - 1))

\* final_response: the text of the text blocks, in order
RECURSIVE final_response(_)
final_response(c) ==
    IF c = <<>> THEN <<>>
    ELSE (IF Head(c).type = "text" THEN Head(c).text ELSE <<>>)
         \o final_response(Tail(c))

Extract ==
    /\ pc = "extract"
    /\ result' = StrResult(final_response(response_body.content))
    /\ pc' = "done"
    /\ UNCHANGED <<user_message, messages, response_body, received,
                   content_blocks, tool_results, idx, sent, invoked, failed,
                   handler_raised>>
    /\ UNCHANGED <<cpf_database, previous_run>>

ExceptResult_EmptyString == StrResult(<<>>)

\* except Exception as e: print(...); return None
ExceptResult == None

Except ==
    /\ pc = "except"
    /\ result' = ExceptResult
    /\ pc' = "done"
    /\ UNCHANGED <<user_message, messages, response_body, received,
                   content_blocks, tool_results, idx, sent, invoked, failed,
                   handler_raised>>
    /\ UNCHANGED <<cpf_database, previous_run>>

Next ==
    \/ \E um \in UserMessages : StartRun(um)
    \/ FirstCallFails
    \/ \E r \in Responses(MaxBlocks) : FirstCall(r)
    \/ AppendAssistant
    \/ LoopStep
    \/ AppendResults
    \/ SecondCallFails
    \/ \E r \in Responses(MaxFinalBlocks) : SecondCall(r)
    \/ Extract
    \/ Except

Spec == Init /\ [][Next]_vars

\* ------------------------------------------------------------------ claims
IsText(b) == b.type = "text"
IsToolUse(b) == b.type = "tool_use"
ToolUses(c) == SelectSeq(c, IsToolUse)
Registered(n) == \E i \in 1..Len(tools) : tools[i].name = n

RECURSIVE Flatten(_)
Flatten(ss) == IF Len(ss) = 0 THEN <<>> ELSE ss[1] \o Flatten(SubSeq(ss, 2, Len(ss)))

\* the text of the text blocks of a content, in order of appearance
TextOf(c) == LET ts == SelectSeq(c, IsText)
             IN Flatten([i \in 1..Len(ts) |-> ts[i].text])

\* the conversation conv holds a tool_result block answering tool-use id
HasToolResultFor(conv, id) ==
    \E m \in 2..Len(conv) :
        /\ conv[m].role = "user"
        /\ \E j \in 1..Len(conv[m].content) :
              /\ conv[m].content[j].type = "tool_result"
              /\ conv[m].content[j].tool_use_id = id

FirstIsToolUse == Len(received) >= 1 /\ received[1].stop_reason = "tool_use"
FirstIsFinal == Len(received) >= 1 /\ received[1].stop_reason # "tool_use"

\* C1: when the first response has a stop reason other than 'tool_use', the
\* run makes exactly one inference call, invokes no handler, appends nothing
\* to the conversation and returns the concatenated text of that response.
C1_NoToolSingleCall ==
    FirstIsFinal =>
        /\ calls = 1
        /\ Len(received) = 1
        /\ invoked = <<>>
        /\ Len(messages) = 1
        /\ failed = 0
        /\ pc \in {"extract", "done"}
        /\ (pc = "done" => result = StrResult(TextOf(received[1].content)))

C1_Witness ==
    /\ pc = "done"
    /\ FirstIsFinal
    /\ Len(SelectSeq(received[1].content, IsText)) = 2
    /\ received[1].content[1] # received[1].content[2]
    /\ result.kind = "str"
    /\ Len(result.val) = 2

\* C2 (as claimed): when the first response has stop reason 'tool_use' and
\* exactly one tool-use block, naming a registered tool, the finished run has
\* made exactly two inference calls, the second conversation holds a
\* tool_result with the id of that block, and the run returns the text of the
\* second response.
C2_OneToolTwoCalls ==
    (/\ pc = "done"
     /\ FirstIsToolUse
     /\ Len(ToolUses(received[1].content)) = 1
     /\ Registered(ToolUses(received[1].content)[1].name))
    => /\ calls = 2
       /\ HasToolResultFor(sent[2], ToolUses(received[1].content)[1].id)
       /\ (failed = 0 => /\ Len(received) = 2
                         /\ result = StrResult(TextOf(received[2].content)))

\* C3 (as claimed): when the first response with stop reason 'tool_use' names
\* a tool that is not registered, no second inference call is made and the
\* run ends signalling UnknownToolError.
C3_UnknownToolIsFatal ==
    (/\ FirstIsToolUse
     /\ \E i \in 1..Len(received[1].content) :
           /\ IsToolUse(received[1].content[i])
           /\ ~Registered(received[1].content[i].name))
    => /\ calls <= 1
       /\ (pc = "done" => result.kind = "UnknownToolError")

\* C4 (as claimed): when a handler raises, the finished run has still made
\* the second inference call with a tool_result of non-empty content for the
\* failing tool-use block, and returns a string.
C4_HandlerFailureAbsorbed ==
    (pc = "done" /\ handler_raised)
    => /\ calls = 2
       /\ \E m \in 2..Len(sent[2]) : \E j \in 1..Len(sent[2][m].content) :
             /\ sent[2][m].content[j].type = "tool_result"
             /\ sent[2][m].content[j].tool_use_id = invoked[Len(invoked)].id
             /\ sent[2][m].content[j].content # <<>>
       /\ (failed = 0 => result.kind = "str")

AllRegistered(c) == \A i \in 1..Len(c) : IsToolUse(c[i]) => Registered(c[i].name)
AllToolResults(c) == \A j \in 1..Len(c) : c[j].type = "tool_result"

\* C5: when the first response with stop reason 'tool_use' holds N >= 2
\* tool-use blocks, all for registered tools, the conversation never holds
\* more than one tool-result message, the run never makes more than two
\* inference calls, and whenever the second call is about to be made or has
\* been made the conversation is the user message, the assistant message and
\* ONE user message holding N tool_result blocks.
C5_BatchedResults ==
    (/\ FirstIsToolUse
     /\ Len(ToolUses(received[1].content)) >= 2
     /\ AllRegistered(received[1].content))
    => /\ calls <= 2
       /\ Len(messages) <= 3
       /\ (Len(messages) >= 2 => messages[2].role = "assistant")
       /\ ((pc = "second_call" \/ calls = 2) =>
             /\ Len(messages) = 3
             /\ messages[3].role = "user"
             /\ Len(messages[3].content) = Len(ToolUses(received[1].content))
             /\ AllToolResults(messages[3].content))
       /\ (calls = 2 => sent[2] = messages)

C5_Witness ==
    /\ pc = "done"
    /\ FirstIsToolUse
    /\ Len(ToolUses(received[1].content)) = 2
    /\ AllRegistered(received[1].content)
    /\ calls = 2
    /\ Len(sent[2][3].content) = 2
    /\ result.kind = "str"

\* C6: a failure of the first or of the second inference call ends the run:
\* the failing call is the last call (no retry), the run goes to the except
\* clause and returns None, which is not a string, and from the failure to
\* the end of the run no request is sent, no response is received and no
\* handler is invoked.
C6_TransportFailureIsFatal ==
    /\ [](failed # 0 =>
            /\ calls = failed
            /\ Len(received) = failed - 1
            /\ pc \in {"except", "done"}
            /\ (failed = 1 => invoked = <<>>)
            /\ (pc = "done" => result = None /\ result.kind # "str"))
    /\ [][(failed # 0 /\ failed' # 0) =>
            /\ failed' = failed
            /\ sent' = sent
            /\ received' = received
            /\ invoked' = invoked
            /\ messages' = messages]_vars

C6_Witness ==
    /\ pc = "done"
    /\ failed = 2
    /\ calls = 2
    /\ invoked # <<>>
    /\ result = None

\* C7: no run makes more than two inference calls; once the second response
\* is received, whatever its stop reason, the run goes straight to the
\* extraction: no handler is invoked for it, nothing is appended to the
\* conversation, and the run returns the text of its text blocks.
C7_SecondResponseFinal ==
    /\ calls <= 2
    /\ Len(received) <= 2
    /\ (Len(received) = 2 =>
          /\ pc \in {"extract", "done"}
          /\ messages = sent[2]
          /\ tool_results = sent[2][3].content
          /\ Len(invoked) = Len(tool_results)
          /\ Len(invoked) <= Len(ToolUses(received[1].content))
          /\ (pc = "done" => result = StrResult(TextOf(received[2].content))))

C7_Witness ==
    /\ pc = "done"
    /\ Len(received) = 2
    /\ received[2].stop_reason = "tool_use"
    /\ Len(received[2].content) = 1
    /\ IsToolUse(received[2].content[1])
    /\ Registered(received[2].content[1].name)
    /\ Len(invoked) = 1
    /\ result = StrResult(<<>>)

\* the run has received the response it treats as final
HasFinalResponse == FirstIsFinal \/ Len(received) = 2

\* C8: a returned string is the concatenation, in order, of the text blocks
\* of the final response only (the first response on the no-tool path, the
\* second on the tool path), and a run that received its final response
\* returns a string, the empty one when that response has no text block.
C8_ReturnsFinalText ==
    pc = "done" =>
        /\ (result.kind = "str" =>
              /\ Len(received) = (IF FirstIsToolUse THEN 2 ELSE 1)
              /\ result.val = TextOf(received[Len(received)].content))
        /\ (HasFinalResponse => result.kind = "str")
        /\ ((HasFinalResponse /\ ToolUses(received[Len(received)].content)
                                   = received[Len(received)].content)
               => result = StrResult(<<>>))

C8_Witness ==
    /\ pc = "done"
    /\ FirstIsToolUse
    /\ Len(received) = 2
    /\ \E i \in 1..Len(received[1].content) :
          /\ IsText(received[1].content[i])
          /\ received[1].content[i].text # <<>>
    /\ Len(received[2].content) = 1
    /\ IsText(received[2].content[1])
    /\ result = StrResult(received[2].content[1].text)
    /\ \A i \in 1..Len(received[1].content) :
          IsText(received[1].content[i]) => received[1].content[i].text # result.val

\* a CPF string that is not in the database, neither as given nor
\* reduced to its digits
IsMiss(v) ==
    /\ v.isStr
    /\ v.chars \notin DOMAIN CPF_DATABASE
    /\ SelectSeq(v.chars, IsDigit) \notin DOMAIN CPF_DATABASE

MissInvoked == \E k \in 1..Len(invoked) : IsMiss(invoked[k].cpf)

\* C9: a lookup miss is not an error of the run: every handler invocation on
\* a CPF that is not in the database yields a tool_result block with the id
\* of its tool-use block and the 'not found' string as content, the run
\* never reaches the except clause because of a miss, and a
\* finished run in which a miss happened has made the second inference call
\* and returns a string, unless something else failed (another handler
\* raised, or the second inference call failed).
C9_LookupMissIsNormalResult ==
    /\ \A k \in 1..Len(invoked) :
          IsMiss(invoked[k].cpf) =>
             /\ Len(tool_results) >= k
             /\ tool_results[k].type = "tool_result"
             /\ tool_results[k].tool_use_id = invoked[k].id
             /\ tool_results[k].content =
                  <<"CPF ">> \o invoked[k].cpf.chars \o <<" not found in database">>
    /\ ((pc = "except" /\ failed = 0) =>
          /\ invoked # <<>>
          /\ ~IsMiss(invoked[Len(invoked)].cpf))
    /\ ((pc = "done" /\ MissInvoked /\ ~handler_raised) =>
          /\ calls = 2
          /\ sent[2][3].content = tool_results
          /\ (failed = 0 => result.kind = "str"))

C9_Witness ==
    /\ pc = "done"
    /\ Len(invoked) = 1
    /\ invoked[1].cpf = StrVal(Miss)
    /\ calls = 2
    /\ sent[2][3].content[1].content
         = <<"CPF ", "9","9","9",".","9","9","9",".","9","9","9","-","9","9",
             " not found in database">>
    /\ result.kind = "str"

IsPrefix(a, b) == Len(a) <= Len(b) /\ SubSeq(b, 1, Len(a)) = a

\* C10: within one run the conversation only grows by appending, and the
\* conversation sent with the second call is exactly: the original user
\* message, one assistant message holding the content blocks of the first
\* response unchanged, and one user message holding the tool results.
C10_ConversationShape ==
    /\ [](/\ (calls >= 1 => sent[1] = <<[role |-> "user", content |-> user_message]>>)
          /\ (calls = 2 =>
                /\ Len(sent[2]) = 3
                /\ sent[2][1] = [role |-> "user", content |-> user_message]
                /\ sent[2][2] = [role |-> "assistant", content |-> received[1].content]
                /\ sent[2][3].role = "user"
                /\ AllToolResults(sent[2][3].content)
                /\ sent[2][3].content = tool_results))
    /\ [][pc \notin {"idle", "done"} => IsPrefix(messages, messages')]_vars

C10_Witness ==
    /\ pc = "done"
    /\ calls = 2
    /\ Len(received[1].content) = 2
    /\ IsText(received[1].content[1])
    /\ IsToolUse(received[1].content[2])
    /\ sent[2][2].content = received[1].content
    /\ Len(sent[2][3].content) = 1

\* the outcome of the handler for the input of a tool-use block
HandlerOutcome(block) == cpf_to_username(CpfArg(block.input))

\* C11 (as claimed): the tool-result message sent with the second call holds
\* exactly one tool_result per tool-use block of the first response, in the
\* same order, the i-th carrying the id of the i-th tool-use block and the
\* outcome of the handler on that block's input; no tool-use block is left
\* without a result and no result carries a foreign id.
C11_OneResultPerToolUse ==
    calls = 2 =>
        LET tus == ToolUses(received[1].content)
            trs == sent[2][3].content
        IN /\ Len(trs) = Len(tus)
           /\ \A i \in 1..Len(tus) :
                 /\ trs[i].type = "tool_result"
                 /\ trs[i].tool_use_id = tus[i].id
                 /\ ~HandlerOutcome(tus[i]).raised
                 /\ trs[i].content = HandlerOutcome(tus[i]).value

\* the tool-use blocks of the first response that name a registered tool
IsRegisteredToolUse(b) == IsToolUse(b) /\ Registered(b.name)
RegisteredToolUses == SelectSeq(received[1].content, IsRegisteredToolUse)

\* C12: the steps of a run are strictly ordered.  A handler is invoked only
\* after the first response is received and before the second request is
\* sent; handlers are invoked one per step, in the order of the tool-use
\* blocks received, each after the previous one has returned its result; the
\* second request is sent only when every handler has returned and the
\* assistant message and the tool-result message are both appended; no step
\* both invokes a handler and sends a request.
C12_StepsStrictlyOrdered ==
    /\ [](/\ (invoked # <<>> => Len(received) >= 1 /\ calls >= 1)
          /\ (Len(received) >= 1 =>
                /\ Len(invoked) <= Len(RegisteredToolUses)
                /\ \A k \in 1..Len(invoked) :
                      /\ invoked[k].id = RegisteredToolUses[k].id
                      /\ invoked[k].cpf = CpfArg(RegisteredToolUses[k].input))
          /\ (Len(tool_results) = Len(invoked)
                \/ (handler_raised /\ Len(tool_results) = Len(invoked) - 1))
          /\ (calls = 2 =>
                /\ Len(invoked) = Len(RegisteredToolUses)
                /\ Len(sent[2]) = 3
                /\ sent[2][3].content = tool_results))
    /\ [][/\ (Len(invoked') > Len(invoked) =>
                /\ Len(invoked') = Len(invoked) + 1
                /\ Len(received) = 1
                /\ calls = 1
                /\ Len(tool_results) = Len(invoked)
                /\ ~handler_raised
                /\ sent' = sent
                /\ received' = received)
          /\ ((Len(sent) = 1 /\ Len(sent') = 2) =>
                /\ Len(received) = 1
                /\ Len(invoked) = Len(RegisteredToolUses)
                /\ Len(tool_results) = Len(invoked)
                /\ Len(messages) = 3
                /\ messages[2].role = "assistant"
                /\ messages[3] = [role |-> "user", content |-> tool_results]
                /\ invoked' = invoked)]_vars

C12_Witness ==
    /\ pc = "done"
    /\ calls = 2
    /\ Len(invoked) = 2
    /\ invoked[1].id = "toolu_01"
    /\ invoked[2].id = "toolu_02"
    /\ invoked[1].cpf # invoked[2].cpf
    /\ Len(tool_results) = 2

\* what a run must send and return, as a function of its own user message,
\* the responses it receives and the failure of a call, and of nothing else
RegisteredToolUsesOf(r) == SelectSeq(r.content, IsRegisteredToolUse)

ExpectedToolResults(r) ==
    [i \in 1..Len(RegisteredToolUsesOf(r)) |->
        [type |-> "tool_result",
         tool_use_id |-> RegisteredToolUsesOf(r)[i].id,
         content |-> HandlerOutcome(RegisteredToolUsesOf(r)[i]).value]]

SomeHandlerRaises(r) ==
    \E i \in 1..Len(RegisteredToolUsesOf(r)) :
        HandlerOutcome(RegisteredToolUsesOf(r)[i]).raised

ExpectedSecondRequest(um, r) ==
    << [role |-> "user", content |-> um],
       [role |-> "assistant", content |-> r.content],
       [role |-> "user", content |-> ExpectedToolResults(r)] >>

ExpectedResult(rs, f) ==
    IF f # 0 THEN None
    ELSE IF rs[1].stop_reason # "tool_use" THEN StrResult(TextOf(rs[1].content))
    ELSE IF SomeHandlerRaises(rs[1]) THEN None
    ELSE StrResult(TextOf(rs[2].content))

\* C13: runs share no mutable state.  Whatever the previous run did, a run
\* starts with a conversation holding only its own user message and with
\* nothing sent, received, invoked or collected; its requests and its result
\* are determined by its own user message, the responses it receives and the
\* failure of a call; and no step of any run changes the CPF database.
C13_RunsShareNoState ==
    /\ [](/\ cpf_database = CPF_DATABASE
          /\ (pc = "first_call" =>
                /\ messages = <<[role |-> "user", content |-> user_message]>>
                /\ sent = <<>>
                /\ received = <<>>
                /\ invoked = <<>>
                /\ tool_results = <<>>
                /\ failed = 0
                /\ ~handler_raised
                /\ result = NoResult)
          /\ (calls >= 1 =>
                sent[1] = <<[role |-> "user", content |-> user_message]>>)
          /\ (calls = 2 =>
                sent[2] = ExpectedSecondRequest(user_message, received[1]))
          /\ (pc = "done" => result = ExpectedResult(received, failed)))
    /\ [][cpf_database' = cpf_database]_vars

C13_Witness ==
    /\ previous_run = "None"
    /\ pc = "done"
    /\ calls = 2
    /\ Len(sent[2][3].content) >= 1
    /\ result.kind = "str"
    /\ result.val # <<>>

====
